---- MODULE Spec2Model ----
(***************************************************************************)
(* Model of the WebSocket hub of trading-bot-constructor (package          *)
(* websocket): Hub.Run, Hub.Broadcast, Hub.BroadcastToSubscribers,         *)
(* WebSocketHandler, Client.SendMessage, Client.readPump, Client.writePump *)
(* and the subscription handlers.                                          *)
(*                                                                         *)
(* Go semantics the model keeps:                                           *)
(*  - register/unregister/broadcast are unbuffered channels: a send is a   *)
(*    rendezvous with the hub loop's select;                               *)
(*  - client.send is a buffered channel; a send on a closed channel and a  *)
(*    close of a closed channel panic, and an unrecovered panic in a       *)
(*    goroutine ends the process (no action is enabled afterwards);        *)
(*  - h.mu is a sync.RWMutex: Lock waits for all readers, readers do not   *)
(*    exclude each other, a pending Lock holds back new readers;           *)
(*  - deleting from a map while another goroutine ranges over it or        *)
(*    deletes from it is a data race: the runtime may or may not throw     *)
(*    "concurrent map ..." and the ranging goroutine may or may not still  *)
(*    be handed the deleted entry.                                         *)
(***************************************************************************)
EXTENDS Integers, Sequences, FiniteSets, TLC

\* ------------------------------------------------------------- bounds
\* capacity of client.send; make(chan []byte, 256) in the source, scaled down
SendCap == 2
\* inputs from outside in one run: inbound frames, publish calls, transport
\* failures
MaxEvents == 3
\* length of a timed run, in steps of the clock
MaxTicks == 12
\* steps of the clock where only the keepalive is followed
MaxBeats == 22
\* requestsPerMinute, the argument of RateLimit
Limit == 2
\* requests that arrive at the rate limiter
MaxRequests == 4
\* steps of the clock at the rate limiter
MaxRateTicks == 3

\* ------------------------------------------------------------- time (seconds)
\* pongWait = 60 * time.Second
PongWait == 60
\* pingPeriod = (pongWait * 9) / 10
PingPeriod == (PongWait * 9) \div 10
\* step of the model's clock: both durations are multiples of it
Quantum == PongWait - PingPeriod

\* the connections accepted by WebSocketHandler
\* time.Minute, in seconds
Minute == 60
\* step of the clock at the rate limiter
HalfMinute == Minute \div 2
\* goroutines running the RateLimit handler, and the addresses of their
\* requests
Handlers == {"h1", "h2"}
IPs == {"a", "b"}

Clients == {"c1", "c2"}
\* the goroutines calling Broadcast / BroadcastToSubscribers
Publishers == {"p1"}
\* subscription types clients and publishers use
Topics == {"X"}

\* ------------------------------------------------------------- messages
\* Message values as they sit in client.send (json.Marshal output, abstracted
\* to the fields that decide the behaviour).
\* client_id is the ClientID field: NoId (Go's empty string) in a Message
\* value as its caller builds it.
NoId == <<>>
Welcome ==
    [type |-> "system", action |-> "connected", topic |-> "", client_id |-> NoId]
Subscribed(t) ==
    [type |-> "subscription", action |-> "subscribed", topic |-> t,
     client_id |-> NoId]
Unsubscribed(t) ==
    [type |-> "subscription", action |-> "unsubscribed", topic |-> t,
     client_id |-> NoId]
Pong ==
    [type |-> "pong", action |-> "ping_response", topic |-> "",
     client_id |-> NoId]
ErrorMsg == [type |-> "error", action |-> "", topic |-> "", client_id |-> NoId]
\* an envelope handed to Broadcast (topic "*") or BroadcastToSubscribers(t, .)
Published(t) ==
    [type |-> "event", action |-> "", topic |-> t, client_id |-> NoId]
Global == "*"

\* data of a subscribe/unsubscribe frame that does not decode as a Subscription
BadData == "<undecodable>"

\* inbound frames read by readPump
Frames ==
    [kind : {"subscribe", "unsubscribe"}, topic : Topics \cup {BadData}]
      \cup {[kind |-> "ping", topic |-> ""],
            [kind |-> "unknown", topic |-> ""],
            [kind |-> "malformed", topic |-> ""]}

VARIABLES
    clients,        \* h.clients: the registry
    send,           \* client.send buffer contents, per client
    closed,         \* client.send has been closed
    subscriptions,  \* client.subscriptions
    connClosed,     \* client.conn has been closed by a pump
    hpc,            \* WebSocketHandler position, per connection
    rpc,            \* readPump position
    rmsg,           \* readPump: acknowledgment still to be sent
    wpc,            \* writePump position
    hubpc,          \* Hub.Run position
    hubClient,      \* Hub.Run: client received from register/unregister
    hubIter,        \* Hub.Run: entries the range loop has not visited yet
    pubpc,          \* publisher position
    pubTopic,       \* publisher: subscriptionType argument
    pubIter,        \* publisher: entries its range loop has not visited yet
    panic,          \* "none", or the runtime error that ended the process
    nevents,        \* inputs from outside so far (bounded by MaxEvents)
    registered,     \* history: clients whose register event was processed
    removed,        \* history: clients unregistered (processed) or evicted
    evicted,        \* history: clients evicted for a full queue
    hubN,           \* history: registry size when the current publish began
    hubAttempts,    \* history: enqueue attempts of the current publish
    hubOutcomes,    \* history: attempts that enqueued or evicted
    mapRace,        \* history: a delete ran while another task held RLock
    wmsg,           \* writePump: the message received from c.send
    wire,           \* what the peer has received on c.conn, where recorded
    now,            \* the clock
    deadline,       \* read deadline set on c.conn
    nextPing,       \* writePump: when the ticker fires next
    pinged,         \* a ping was written and no pong has come back yet
    stopped,        \* TradingServer.Stop has been called
    clientID,       \* client.clientID
    wfailed,        \* history: a write failed on the open c.conn
    rlpc,           \* RateLimit handler position, per goroutine
    rlIP,           \* RateLimit handler: clientIP
    rlT,            \* RateLimit handler: now
    rlValid,        \* RateLimit handler: validRequests
    rlLog,          \* RateLimit: the map clients, times of requests per IP
    rlAdmitted,     \* history: the requests passed to the downstream handler
    rlCount         \* history: number of requests so far

vars == <<clients, send, closed, subscriptions, connClosed, hpc, rpc, rmsg, wpc,
          hubpc, hubClient, hubIter, pubpc, pubTopic, pubIter, panic, nevents,
          registered, removed, evicted, hubN, hubAttempts, hubOutcomes,
          mapRace, wmsg, wire, now, deadline, nextPing, pinged, stopped,
          clientID, wfailed, rlpc, rlIP, rlT, rlValid, rlLog, rlAdmitted,
          rlCount>>

NoClient == "none"
NoMsg == [type |-> "", action |-> "", topic |-> "", client_id |-> NoId]

\* generateClientID: fmt.Sprintf("client_%d", time.Now().UnixNano()), for
\* the clock reading t
generateClientID(t) == <<"client_", t>>
\* value of wire[c] for a connection whose peer's input is not recorded
NoTap == <<NoMsg>>

\* Connections have been upgraded and their Client values built; each handler
\* is blocked in  hub.register <- client.  The hub loop waits in its select.
\* tapped: the connections whose peer's input is recorded; reading: the clock
\* reading each handler's call of generateClientID got.
InitWith(tapped, reading) ==
    /\ clientID = [c \in Clients |-> generateClientID(reading[c])]
    /\ wire = [c \in Clients |-> IF c \in tapped THEN <<>> ELSE NoTap]
    /\ wmsg = [c \in Clients |-> NoMsg]
    /\ now = 0
    /\ deadline = [c \in Clients |-> 0]
    /\ nextPing = [c \in Clients |-> 0]
    /\ pinged = [c \in Clients |-> FALSE]
    /\ stopped = FALSE
    /\ wfailed = [c \in Clients |-> FALSE]
    /\ rlpc = [h \in Handlers |-> "idle"]
    /\ rlIP = [h \in Handlers |-> "a"]
    /\ rlT = [h \in Handlers |-> 0]
    /\ rlValid = [h \in Handlers |-> <<>>]
    /\ rlLog = [ip \in IPs |-> <<>>]
    /\ rlAdmitted = <<>>
    /\ rlCount = 0
    /\ clients = {}
    /\ send = [c \in Clients |-> <<>>]
    /\ closed = [c \in Clients |-> FALSE]
    /\ subscriptions = [c \in Clients |-> {}]
    /\ connClosed = [c \in Clients |-> FALSE]
    /\ hpc = [c \in Clients |-> "register"]
    /\ rpc = [c \in Clients |-> "off"]
    /\ rmsg = [c \in Clients |-> NoMsg]
    /\ wpc = [c \in Clients |-> "off"]
    /\ hubpc = "select"
    /\ hubClient = NoClient
    /\ hubIter = {}
    /\ pubpc = [p \in Publishers |-> "idle"]
    /\ pubTopic = [p \in Publishers |-> Global]
    /\ pubIter = [p \in Publishers |-> {}]
    /\ panic = "none"
    /\ nevents = 0
    /\ registered = {}
    /\ removed = {}
    /\ evicted = {}
    /\ hubN = 0
    /\ hubAttempts = 0
    /\ hubOutcomes = 0
    /\ mapRace = FALSE

\* clock readings of two handlers that ran at different instants
Apart == [c \in Clients |-> IF c = "c1" THEN 1 ELSE 2]

Init == InitWith({}, Apart)

Alive == panic = "none"
\* the read deadline of c.conn has passed: ReadMessage fails from now on
Expired(c) == now > deadline[c]
\* an input from outside is still within the run's budget
Event == nevents < MaxEvents /\ nevents' = nevents + 1

\* ------------------------------------------------------------- channels
\* Outcome of the send case of  select { case c.send <- m: ... default: ... }
TrySend(c) ==
    IF closed[c] THEN "panic"
    ELSE IF Len(send[c]) < SendCap THEN "sent" ELSE "full"

\* close(c.send): closing a closed channel panics
CloseSend(c) ==
    IF closed[c]
    THEN /\ panic' = "close of closed channel"
         /\ closed' = closed
    ELSE /\ panic' = panic
         /\ closed' = [closed EXCEPT ![c] = TRUE]

\* variant of Stamp: the field is left as the caller set it
StampKeepsCaller(c, m) == m

\* message.ClientID = c.clientID
Stamp(c, m) == [m EXCEPT !.client_id = clientID[c]]

\* Client.SendMessage: stamp, marshal, then a non-blocking send whose default
\* branch closes the channel (the registry is not touched).
SendMessage(c, m) ==
    CASE TrySend(c) = "panic" ->
            /\ panic' = "send on closed channel"
            /\ UNCHANGED <<send, closed>>
      [] TrySend(c) = "sent" ->
            /\ send' = [send EXCEPT ![c] = Append(@, Stamp(c, m))]
            /\ UNCHANGED <<closed, panic>>
      [] TrySend(c) = "full" ->
            /\ CloseSend(c)
            /\ UNCHANGED send

\* ------------------------------------------------------------- h.mu
HubReading == hubpc = "broadcast"
PubReading(p) == pubpc[p] = "iter"
\* variant of Readers: a publisher that ran while a client was evicted has
\* returned without h.mu.RUnlock()
ReadersLeak == {p \in Publishers : PubReading(p) \/ evicted # {}}

\* the publishers that hold h.mu.RLock()
Readers == {p \in Publishers : PubReading(p)}
\* h.mu.Lock() can be taken: no reader holds the mutex
CanLock == ~HubReading /\ Readers = {}
\* a publisher's h.mu.RLock() can be taken: no writer holds or awaits the mutex
CanRLock == hubpc \notin {"register", "unregister"}
\* number of tasks holding RLock
NReaders == Cardinality(Readers) + (IF HubReading THEN 1 ELSE 0)

\* ------------------------------------------------------------- eviction
\* variant of Evict: the entry is deleted but the channel is left open
EvictKeepOpen(c, racing) ==
    /\ clients' = clients \ {c}
    /\ evicted' = evicted \cup {c}
    /\ removed' = removed \cup {c}
    /\ mapRace' = (mapRace \/ racing)
    /\ UNCHANGED <<send, closed, panic>>

\* default branch of the dispatch select: delete(h.clients, c); close(c.send)
Evict(c, racing) ==
    /\ clients' = clients \ {c}
    /\ CloseSend(c)
    /\ evicted' = evicted \cup {c}
    /\ removed' = removed \cup {c}
    /\ mapRace' = (mapRace \/ racing)
    /\ UNCHANGED send

\* one iteration of a broadcast loop for a client that is in the registry:
\* select { case client.send <- m: default: evict }
Dispatch(c, m, racing) ==
    CASE TrySend(c) = "panic" ->
            /\ panic' = "send on closed channel"
            /\ UNCHANGED <<send, closed, clients, evicted, removed, mapRace>>
      [] TrySend(c) = "sent" ->
            /\ send' = [send EXCEPT ![c] = Append(@, m)]
            /\ UNCHANGED <<closed, clients, evicted, removed, mapRace, panic>>
      [] TrySend(c) = "full" ->
            Evict(c, racing)

\* ------------------------------------------------------------- ticker
\* variant of TickerNext: a ticker whose period exceeds pongWait
TickerNextSlow(t) == t + PongWait + Quantum

\* ticker := time.NewTicker(pingPeriod): the tick that follows instant t
TickerNext(t) == t + PingPeriod

\* ------------------------------------------------------------- WebSocketHandler
\* go client.writePump(); go client.readPump()
Spawn(c) ==
    /\ Alive
    /\ hpc[c] = "spawn"
    /\ hpc' = [hpc EXCEPT ![c] = "done"]
    /\ wpc' = [wpc EXCEPT ![c] = "select"]
    /\ rpc' = [rpc EXCEPT ![c] = "read"]
    /\ nextPing' = [nextPing EXCEPT ![c] = TickerNext(now)]
    /\ deadline' = [deadline EXCEPT ![c] = now + PongWait]
    /\ UNCHANGED <<clients, send, closed, subscriptions, connClosed, rmsg,
                   hubpc, hubClient, hubIter, pubpc, pubTopic, pubIter,
                   panic, nevents, registered, removed, evicted, hubN,
                   hubAttempts, hubOutcomes, mapRace, wmsg, wire, now,
                   pinged, stopped, clientID, wfailed, rlpc, rlIP, rlT,
                   rlValid, rlLog, rlAdmitted, rlCount>>

\* ------------------------------------------------------------- Hub.Run
\* hub.register <- client in the handler meets  case client := <-h.register
HubRecvRegister(c) ==
    /\ Alive
    /\ hubpc = "select"
    /\ hpc[c] = "register"
    /\ hubpc' = "register"
    /\ hubClient' = c
    /\ hpc' = [hpc EXCEPT ![c] = "spawn"]
    /\ UNCHANGED <<clients, send, closed, subscriptions, connClosed, rpc,
                   rmsg, wpc, hubIter, pubpc, pubTopic, pubIter, panic,
                   nevents, registered, removed, evicted, hubN, hubAttempts,
                   hubOutcomes, mapRace, wmsg, wire, now, deadline, nextPing,
                   pinged, stopped, clientID, wfailed, rlpc, rlIP, rlT,
                   rlValid, rlLog, rlAdmitted, rlCount>>

\* variant of RegisterAdd: every client that was ever registered is entered
\* again
RegisterAddRevives(c) ==
    /\ clients' = clients \cup registered \cup {c}
    /\ registered' = registered \cup {c}

\* h.mu.Lock(); h.clients[client] = true; h.mu.Unlock()
RegisterAdd(c) ==
    /\ clients' = clients \cup {c}
    /\ registered' = registered \cup {c}

HubRegister ==
    /\ Alive
    /\ hubpc = "register"
    /\ CanLock
    /\ RegisterAdd(hubClient)
    /\ hubpc' = "welcome"
    /\ UNCHANGED <<send, closed, subscriptions, connClosed, hpc, rpc, rmsg,
                   wpc, hubClient, hubIter, pubpc, pubTopic, pubIter, panic,
                   nevents, removed, evicted, hubN, hubAttempts, hubOutcomes,
                   mapRace, wmsg, wire, now, deadline, nextPing, pinged,
                   stopped, clientID, wfailed, rlpc, rlIP, rlT, rlValid,
                   rlLog, rlAdmitted, rlCount>>

\* client.SendMessage(welcomeMsg)
HubWelcome ==
    /\ Alive
    /\ hubpc = "welcome"
    /\ SendMessage(hubClient, Welcome)
    /\ hubpc' = "select"
    /\ hubClient' = NoClient
    /\ UNCHANGED <<clients, subscriptions, connClosed, hpc, rpc, rmsg, wpc,
                   hubIter, pubpc, pubTopic, pubIter, nevents, registered,
                   removed, evicted, hubN, hubAttempts, hubOutcomes, mapRace,
                   wmsg, wire, now, deadline, nextPing, pinged, stopped,
                   clientID, wfailed, rlpc, rlIP, rlT, rlValid, rlLog,
                   rlAdmitted, rlCount>>

\* readPump's deferred  c.hub.unregister <- c  meets
\* case client := <-h.unregister; readPump then closes the connection and ends
HubRecvUnregister(c) ==
    /\ Alive
    /\ hubpc = "select"
    /\ rpc[c] = "unregister"
    /\ hubpc' = "unregister"
    /\ hubClient' = c
    /\ rpc' = [rpc EXCEPT ![c] = "done"]
    /\ connClosed' = [connClosed EXCEPT ![c] = TRUE]
    /\ UNCHANGED <<clients, send, closed, subscriptions, hpc, rmsg, wpc,
                   hubIter, pubpc, pubTopic, pubIter, panic, nevents,
                   registered, removed, evicted, hubN, hubAttempts,
                   hubOutcomes, mapRace, wmsg, wire, now, deadline, nextPing,
                   pinged, stopped, clientID, wfailed, rlpc, rlIP, rlT,
                   rlValid, rlLog, rlAdmitted, rlCount>>

\* variant of UnregisterRemove: the channel is closed but the entry stays
UnregisterKeepEntry(c) ==
    IF c \in clients
    THEN /\ clients' = clients
         /\ CloseSend(c)
    ELSE UNCHANGED <<clients, closed, panic>>

\* variant of UnregisterRemove: no  if _, ok := h.clients[client]; ok  test
UnregisterNoCheck(c) ==
    /\ clients' = clients \ {c}
    /\ CloseSend(c)

\* variant of UnregisterRemove: the entry is deleted, the channel left open
UnregisterKeepOpen(c) ==
    IF c \in clients
    THEN /\ clients' = clients \ {c}
         /\ UNCHANGED <<closed, panic>>
    ELSE UNCHANGED <<clients, closed, panic>>

\* if _, ok := h.clients[client]; ok { delete(h.clients, client); close(client.send) }
UnregisterRemove(c) ==
    IF c \in clients
    THEN /\ clients' = clients \ {c}
         /\ CloseSend(c)
    ELSE UNCHANGED <<clients, closed, panic>>

HubUnregister ==
    /\ Alive
    /\ hubpc = "unregister"
    /\ CanLock
    /\ UnregisterRemove(hubClient)
    /\ removed' = removed \cup {hubClient}
    /\ hubpc' = "select"
    /\ hubClient' = NoClient
    /\ UNCHANGED <<send, subscriptions, connClosed, hpc, rpc, rmsg, wpc,
                   hubIter, pubpc, pubTopic, pubIter, nevents, registered,
                   evicted, hubN, hubAttempts, hubOutcomes, mapRace, wmsg,
                   wire, now, deadline, nextPing, pinged, stopped, clientID,
                   wfailed, rlpc, rlIP, rlT, rlValid, rlLog, rlAdmitted,
                   rlCount>>

\* h.broadcast <- data in Broadcast meets  case message := <-h.broadcast;
\* h.mu.RLock(); the range over h.clients begins
HubRecvBroadcast(p) ==
    /\ Alive
    /\ hubpc = "select"
    /\ pubpc[p] = "bcast"
    /\ hubpc' = "broadcast"
    /\ hubIter' = clients
    /\ pubpc' = [pubpc EXCEPT ![p] = "idle"]
    /\ hubN' = Cardinality(clients)
    /\ hubAttempts' = 0
    /\ hubOutcomes' = 0
    /\ UNCHANGED <<clients, send, closed, subscriptions, connClosed, hpc,
                   rpc, rmsg, wpc, hubClient, pubTopic, pubIter, panic,
                   nevents, registered, removed, evicted, mapRace, wmsg,
                   wire, now, deadline, nextPing, pinged, stopped, clientID,
                   wfailed, rlpc, rlIP, rlT, rlValid, rlLog, rlAdmitted,
                   rlCount>>

\* one iteration of  for client := range h.clients  in the broadcast case
HubBroadcastNext(c) ==
    /\ Alive
    /\ hubpc = "broadcast"
    /\ c \in hubIter
    /\ hubIter' = hubIter \ {c}
    /\ IF c \in clients
       THEN /\ Dispatch(c, Published(Global), Readers # {})
            /\ hubAttempts' = hubAttempts + 1
            /\ hubOutcomes' = IF TrySend(c) = "panic" THEN hubOutcomes
                                                      ELSE hubOutcomes + 1
       ELSE \* deleted by a concurrent BroadcastToSubscribers: the range may
            \* skip the entry, or may already have handed it to the loop body
            \/ /\ UNCHANGED <<clients, send, closed, panic, evicted, removed,
                              mapRace, hubAttempts, hubOutcomes>>
            \/ /\ panic' = "send on closed channel"
               /\ hubAttempts' = hubAttempts + 1
               /\ UNCHANGED <<clients, send, closed, evicted, removed, mapRace,
                              hubOutcomes>>
    /\ UNCHANGED <<subscriptions, connClosed, hpc, rpc, rmsg, wpc, hubpc,
                   hubClient, pubpc, pubTopic, pubIter, nevents, registered,
                   hubN, wmsg, wire, now, deadline, nextPing, pinged,
                   stopped, clientID, wfailed, rlpc, rlIP, rlT, rlValid,
                   rlLog, rlAdmitted, rlCount>>

\* h.mu.RUnlock(): the broadcast case ends
HubBroadcastDone ==
    /\ Alive
    /\ hubpc = "broadcast"
    /\ hubIter = {}
    /\ hubpc' = "select"
    /\ hubN' = 0
    /\ hubAttempts' = 0
    /\ hubOutcomes' = 0
    /\ mapRace' = (mapRace /\ NReaders - 1 >= 2)
    /\ UNCHANGED <<clients, send, closed, subscriptions, connClosed, hpc,
                   rpc, rmsg, wpc, hubClient, hubIter, pubpc, pubTopic,
                   pubIter, panic, nevents, registered, removed, evicted,
                   wmsg, wire, now, deadline, nextPing, pinged, stopped,
                   clientID, wfailed, rlpc, rlIP, rlT, rlValid, rlLog,
                   rlAdmitted, rlCount>>

\* ------------------------------------------------------------- publishers
\* Hub.Broadcast: marshal, then block on h.broadcast <- data
Broadcast(p) ==
    /\ Alive
    /\ pubpc[p] = "idle"
    /\ Event
    /\ pubpc' = [pubpc EXCEPT ![p] = "bcast"]
    /\ UNCHANGED <<clients, send, closed, subscriptions, connClosed, hpc,
                   rpc, rmsg, wpc, hubpc, hubClient, hubIter, pubTopic,
                   pubIter, panic, registered, removed, evicted, hubN,
                   hubAttempts, hubOutcomes, mapRace, wmsg, wire, now,
                   deadline, nextPing, pinged, stopped, clientID, wfailed,
                   rlpc, rlIP, rlT, rlValid, rlLog, rlAdmitted, rlCount>>

\* Hub.BroadcastToSubscribers: marshal, h.mu.RLock(), range h.clients begins;
\* all of it runs on the caller's goroutine
BroadcastToSubscribers(p, t) ==
    /\ Alive
    /\ pubpc[p] = "idle"
    /\ CanRLock
    /\ Event
    /\ pubpc' = [pubpc EXCEPT ![p] = "iter"]
    /\ pubTopic' = [pubTopic EXCEPT ![p] = t]
    /\ pubIter' = [pubIter EXCEPT ![p] = clients]
    /\ UNCHANGED <<clients, send, closed, subscriptions, connClosed, hpc,
                   rpc, rmsg, wpc, hubpc, hubClient, hubIter, panic,
                   registered, removed, evicted, hubN, hubAttempts,
                   hubOutcomes, mapRace, wmsg, wire, now, deadline, nextPing,
                   pinged, stopped, clientID, wfailed, rlpc, rlIP, rlT,
                   rlValid, rlLog, rlAdmitted, rlCount>>

\* variant of IsSubscribed: the subscription set is not consulted
IsSubscribedAlways(c, t) == TRUE

\* client.subscriptions[subscriptionType], read under client.mu.RLock()
IsSubscribed(c, t) == t \in subscriptions[c]

\* one iteration of  for client := range h.clients  in BroadcastToSubscribers
SubscribersNext(p, c) ==
    /\ Alive
    /\ pubpc[p] = "iter"
    /\ c \in pubIter[p]
    /\ pubIter' = [pubIter EXCEPT ![p] = @ \ {c}]
    /\ IF ~IsSubscribed(c, pubTopic[p])
       THEN UNCHANGED <<clients, send, closed, panic, evicted, removed, mapRace>>
       ELSE IF c \in clients
       THEN Dispatch(c, Published(pubTopic[p]),
                     HubReading \/ Readers \ {p} # {})
       ELSE \* deleted by a concurrent broadcast: skipped, or already handed
            \* to the loop body, whose send then hits the closed channel
            \/ UNCHANGED <<clients, send, closed, panic, evicted, removed, mapRace>>
            \/ /\ panic' = "send on closed channel"
               /\ UNCHANGED <<clients, send, closed, evicted, removed, mapRace>>
    /\ UNCHANGED <<subscriptions, connClosed, hpc, rpc, rmsg, wpc, hubpc,
                   hubClient, hubIter, pubpc, pubTopic, nevents, registered,
                   hubN, hubAttempts, hubOutcomes, wmsg, wire, now, deadline,
                   nextPing, pinged, stopped, clientID, wfailed, rlpc, rlIP,
                   rlT, rlValid, rlLog, rlAdmitted, rlCount>>

\* deferred h.mu.RUnlock(): BroadcastToSubscribers returns
SubscribersDone(p) ==
    /\ Alive
    /\ pubpc[p] = "iter"
    /\ pubIter[p] = {}
    /\ pubpc' = [pubpc EXCEPT ![p] = "idle"]
    /\ pubTopic' = [pubTopic EXCEPT ![p] = Global]
    /\ mapRace' = (mapRace /\ NReaders - 1 >= 2)
    /\ UNCHANGED <<clients, send, closed, subscriptions, connClosed, hpc,
                   rpc, rmsg, wpc, hubpc, hubClient, hubIter, pubIter, panic,
                   nevents, registered, removed, evicted, hubN, hubAttempts,
                   hubOutcomes, wmsg, wire, now, deadline, nextPing, pinged,
                   stopped, clientID, wfailed, rlpc, rlIP, rlT, rlValid,
                   rlLog, rlAdmitted, rlCount>>

\* The Go runtime notices the unsynchronised map access and throws.
FatalMapRace ==
    /\ Alive
    /\ mapRace
    /\ panic' = "concurrent map iteration and map write"
    /\ UNCHANGED <<clients, send, closed, subscriptions, connClosed, hpc,
                   rpc, rmsg, wpc, hubpc, hubClient, hubIter, pubpc,
                   pubTopic, pubIter, nevents, registered, removed, evicted,
                   hubN, hubAttempts, hubOutcomes, mapRace, wmsg, wire, now,
                   deadline, nextPing, pinged, stopped, clientID, wfailed,
                   rlpc, rlIP, rlT, rlValid, rlLog, rlAdmitted, rlCount>>

\* ------------------------------------------------------------- readPump
\* variant of handleSubscription: the new type replaces the set
handleSubscriptionReplaces(c, t) == {t}

\* variant of handleUnsubscription: the whole set is cleared
handleUnsubscriptionClears(c, t) == {}

\* handleSubscription / handleUnsubscription up to c.mu.Unlock(): the
\* subscription set after the frame
handleSubscription(c, t) == subscriptions[c] \cup {t}
handleUnsubscription(c, t) == subscriptions[c] \ {t}

\* json.Unmarshal(data, &subscription) succeeds
Decodes(f) == f.topic # BadData

\* variant of SubscriptionsAfter: one subscription map behind all clients
SubscriptionsShared(c, f) ==
    [d \in Clients |->
        IF f.kind = "subscribe" THEN handleSubscription(c, f.topic)
                                ELSE handleUnsubscription(c, f.topic)]

\* the subscription maps after c has handled the subscribe/unsubscribe frame
\* f: c.subscriptions[subscription.Type] = true, or delete(c.subscriptions,
\* subscription.Type), on c's own map
SubscriptionsAfter(c, f) ==
    [subscriptions EXCEPT ![c] =
        IF f.kind = "subscribe" THEN handleSubscription(c, f.topic)
                                ELSE handleUnsubscription(c, f.topic)]

\* the reply handleMessage (or readPump, for an undecodable frame) sends
Reply(f) ==
    CASE f.kind = "subscribe" /\ Decodes(f) -> Subscribed(f.topic)
      [] f.kind = "unsubscribe" /\ Decodes(f) -> Unsubscribed(f.topic)
      [] f.kind = "ping" -> Pong
      [] OTHER -> ErrorMsg

\* c.conn.ReadMessage() returned a frame; json.Unmarshal; handleMessage.
\* subscribe/unsubscribe change the set under c.mu and send the
\* acknowledgment in a later step; the other kinds reply at once.
ReadFrame(c, f) ==
    /\ Alive
    /\ rpc[c] = "read"
    /\ ~connClosed[c]
    /\ ~Expired(c)
    /\ Event
    /\ IF f.kind \in {"subscribe", "unsubscribe"} /\ Decodes(f)
       THEN /\ subscriptions' = SubscriptionsAfter(c, f)
            /\ rpc' = [rpc EXCEPT ![c] = "reply"]
            /\ rmsg' = [rmsg EXCEPT ![c] = Reply(f)]
            /\ UNCHANGED <<send, closed, panic>>
       ELSE /\ SendMessage(c, Reply(f))
            /\ UNCHANGED <<subscriptions, rpc, rmsg>>
    /\ UNCHANGED <<clients, connClosed, hpc, wpc, hubpc, hubClient, hubIter,
                   pubpc, pubTopic, pubIter, registered, removed, evicted,
                   hubN, hubAttempts, hubOutcomes, mapRace, wmsg, wire, now,
                   deadline, nextPing, pinged, stopped, clientID, wfailed,
                   rlpc, rlIP, rlT, rlValid, rlLog, rlAdmitted, rlCount>>

\* c.SendMessage(Message{Type: "subscription", ...}) at the end of
\* handleSubscription / handleUnsubscription
ReadReply(c) ==
    /\ Alive
    /\ rpc[c] = "reply"
    /\ SendMessage(c, rmsg[c])
    /\ rpc' = [rpc EXCEPT ![c] = "read"]
    /\ rmsg' = [rmsg EXCEPT ![c] = NoMsg]
    /\ UNCHANGED <<clients, subscriptions, connClosed, hpc, wpc, hubpc,
                   hubClient, hubIter, pubpc, pubTopic, pubIter, nevents,
                   registered, removed, evicted, hubN, hubAttempts,
                   hubOutcomes, mapRace, wmsg, wire, now, deadline, nextPing,
                   pinged, stopped, clientID, wfailed, rlpc, rlIP, rlT,
                   rlValid, rlLog, rlAdmitted, rlCount>>

\* ReadMessage returned an error: break; the deferred function blocks on
\* c.hub.unregister <- c.  The error is the connection closed by writePump,
\* or comes from outside (peer gone, read deadline passed).
ReadError(c) ==
    /\ Alive
    /\ rpc[c] = "read"
    /\ IF connClosed[c] THEN UNCHANGED nevents ELSE Event
    /\ rpc' = [rpc EXCEPT ![c] = "unregister"]
    /\ UNCHANGED <<clients, send, closed, subscriptions, connClosed, hpc,
                   rmsg, wpc, hubpc, hubClient, hubIter, pubpc, pubTopic,
                   pubIter, panic, registered, removed, evicted, hubN,
                   hubAttempts, hubOutcomes, mapRace, wmsg, wire, now,
                   deadline, nextPing, pinged, stopped, clientID, wfailed,
                   rlpc, rlIP, rlT, rlValid, rlLog, rlAdmitted, rlCount>>

\* ------------------------------------------------------------- writePump
\* case message, ok := <-c.send with ok: one message is taken; NextWriter
\* fails on a closed connection
WriteRecv(c) ==
    /\ Alive
    /\ wpc[c] = "select"
    /\ send[c] # <<>>
    /\ send' = [send EXCEPT ![c] = Tail(@)]
    /\ wmsg' = [wmsg EXCEPT ![c] = IF connClosed[c] \/ wire[c] = NoTap
                                    THEN NoMsg ELSE Head(send[c])]
    /\ wpc' = [wpc EXCEPT ![c] = IF connClosed[c] THEN "done" ELSE "flush"]
    /\ UNCHANGED <<clients, closed, subscriptions, connClosed, hpc, rpc,
                   rmsg, hubpc, hubClient, hubIter, pubpc, pubTopic, pubIter,
                   panic, nevents, registered, removed, evicted, hubN,
                   hubAttempts, hubOutcomes, mapRace, wire, now, deadline,
                   nextPing, pinged, stopped, clientID, wfailed, rlpc, rlIP,
                   rlT, rlValid, rlLog, rlAdmitted, rlCount>>

\* case message, ok := <-c.send with !ok (closed and drained): close frame,
\* return; the deferred function closes the connection
WriteClosed(c) ==
    /\ Alive
    /\ wpc[c] = "select"
    /\ send[c] = <<>>
    /\ closed[c]
    /\ wpc' = [wpc EXCEPT ![c] = "done"]
    /\ connClosed' = [connClosed EXCEPT ![c] = TRUE]
    /\ UNCHANGED <<clients, send, closed, subscriptions, hpc, rpc, rmsg,
                   hubpc, hubClient, hubIter, pubpc, pubTopic, pubIter,
                   panic, nevents, registered, removed, evicted, hubN,
                   hubAttempts, hubOutcomes, mapRace, wmsg, wire, now,
                   deadline, nextPing, pinged, stopped, clientID, wfailed,
                   rlpc, rlIP, rlT, rlValid, rlLog, rlAdmitted, rlCount>>

\* variant of Flushed: the coalesced messages are received but not written
FlushedHeadOnly(c) == <<wmsg[c]>>

\* w.Write(message); n := len(c.send); n times w.Write(<-c.send): the
\* envelopes of one WebSocket message, in the order they are written
Flushed(c) == <<wmsg[c]>> \o send[c]

\* n := len(c.send); n more receives; w.Close() succeeds (ok) or fails, on a
\* closed connection or by a transport failure from outside
WriteFlush(c, ok) ==
    /\ Alive
    /\ wpc[c] = "flush"
    /\ ok => ~connClosed[c]
    /\ IF ok \/ connClosed[c] THEN UNCHANGED nevents ELSE Event
    /\ send' = [send EXCEPT ![c] = <<>>]
    /\ wpc' = [wpc EXCEPT ![c] = IF ok THEN "select" ELSE "done"]
    /\ connClosed' = [connClosed EXCEPT ![c] = @ \/ ~ok]
    /\ wmsg' = [wmsg EXCEPT ![c] = NoMsg]
    /\ wire' = [wire EXCEPT ![c] = IF ok /\ @ # NoTap THEN @ \o Flushed(c)
                                                        ELSE @]
    /\ wfailed' = [wfailed EXCEPT ![c] = ~ok /\ ~connClosed[c]]
    /\ UNCHANGED <<clients, closed, subscriptions, hpc, rpc, rmsg, hubpc,
                   hubClient, hubIter, pubpc, pubTopic, pubIter, panic,
                   registered, removed, evicted, hubN, hubAttempts,
                   hubOutcomes, mapRace, now, deadline, nextPing, pinged,
                   stopped, clientID, rlpc, rlIP, rlT, rlValid, rlLog,
                   rlAdmitted, rlCount>>

\* case <-ticker.C: the ping write fails; return, connection closed
WritePingError(c) ==
    /\ Alive
    /\ wpc[c] = "select"
    /\ IF connClosed[c] THEN UNCHANGED nevents ELSE Event
    /\ wpc' = [wpc EXCEPT ![c] = "done"]
    /\ connClosed' = [connClosed EXCEPT ![c] = TRUE]
    /\ wfailed' = [wfailed EXCEPT ![c] = ~connClosed[c]]
    /\ UNCHANGED <<clients, send, closed, subscriptions, hpc, rpc, rmsg,
                   hubpc, hubClient, hubIter, pubpc, pubTopic, pubIter,
                   panic, registered, removed, evicted, hubN, hubAttempts,
                   hubOutcomes, mapRace, wmsg, wire, now, deadline, nextPing,
                   pinged, stopped, clientID, rlpc, rlIP, rlT, rlValid,
                   rlLog, rlAdmitted, rlCount>>

\* ------------------------------------------------------------- keepalive
\* ReadMessage runs the pong handler on a pong control frame:
\* c.conn.SetReadDeadline(time.Now().Add(pongWait)); no message is returned
ReadPong(c) ==
    /\ Alive
    /\ rpc[c] = "read"
    /\ ~connClosed[c]
    /\ ~Expired(c)
    /\ pinged[c]
    /\ pinged' = [pinged EXCEPT ![c] = FALSE]
    /\ deadline' = [deadline EXCEPT ![c] = now + PongWait]
    /\ UNCHANGED <<clients, send, closed, subscriptions, connClosed, hpc,
                   rpc, rmsg, wpc, hubpc, hubClient, hubIter, pubpc,
                   pubTopic, pubIter, panic, nevents, registered, removed,
                   evicted, hubN, hubAttempts, hubOutcomes, mapRace, wmsg,
                   wire, now, nextPing, stopped, clientID, wfailed, rlpc,
                   rlIP, rlT, rlValid, rlLog, rlAdmitted, rlCount>>

\* ReadMessage fails with a timeout: the read deadline has passed; break,
\* and the deferred function blocks on c.hub.unregister <- c
ReadExpired(c) ==
    /\ Alive
    /\ rpc[c] = "read"
    /\ ~connClosed[c]
    /\ Expired(c)
    /\ rpc' = [rpc EXCEPT ![c] = "unregister"]
    /\ UNCHANGED <<clients, send, closed, subscriptions, connClosed, hpc,
                   rmsg, wpc, hubpc, hubClient, hubIter, pubpc, pubTopic,
                   pubIter, panic, nevents, registered, removed, evicted,
                   hubN, hubAttempts, hubOutcomes, mapRace, wmsg, wire, now,
                   deadline, nextPing, pinged, stopped, clientID, wfailed,
                   rlpc, rlIP, rlT, rlValid, rlLog, rlAdmitted, rlCount>>

\* case <-ticker.C: the ping is written
WritePing(c) ==
    /\ Alive
    /\ wpc[c] = "select"
    /\ ~connClosed[c]
    /\ now >= nextPing[c]
    /\ nextPing' = [nextPing EXCEPT ![c] = TickerNext(@)]
    /\ pinged' = [pinged EXCEPT ![c] = TRUE]
    /\ UNCHANGED <<clients, send, closed, subscriptions, connClosed, hpc,
                   rpc, rmsg, wpc, hubpc, hubClient, hubIter, pubpc,
                   pubTopic, pubIter, panic, nevents, registered, removed,
                   evicted, hubN, hubAttempts, hubOutcomes, mapRace, wmsg,
                   wire, now, deadline, stopped, clientID, wfailed, rlpc,
                   rlIP, rlT, rlValid, rlLog, rlAdmitted, rlCount>>

\* a writePump waiting in its select has a ping to write
PingDue(c) == wpc[c] = "select" /\ ~connClosed[c] /\ now >= nextPing[c]
\* a blocked ReadMessage has a timeout to return
TimeoutDue(c) == rpc[c] = "read" /\ ~connClosed[c] /\ Expired(c)

\* a goroutine is between two blocking operations, or blocked on a channel
\* operation that can proceed
Busy ==
    \/ hubpc # "select"
    \/ \E c \in Clients :
          \/ hpc[c] \in {"register", "spawn"}
          \/ rpc[c] \in {"reply", "unregister"}
          \/ rpc[c] = "read" /\ connClosed[c]
          \/ wpc[c] = "flush"
          \/ wpc[c] = "select" /\ (send[c] # <<>> \/ closed[c])

\* Time passes, one step of the clock.  Steps of the program take no time at
\* this scale: the clock moves only while every goroutine is blocked (in the
\* hub's select, in ReadMessage, in writePump's select with nothing to
\* receive), no ticker has fired unserved and no read timeout is unreturned.
Tick ==
    /\ Alive
    /\ now < MaxTicks * Quantum
    /\ ~Busy
    /\ \A c \in Clients : ~PingDue(c) /\ ~TimeoutDue(c)
    /\ now' = now + Quantum
    /\ UNCHANGED <<clients, send, closed, subscriptions, connClosed, hpc,
                   rpc, rmsg, wpc, hubpc, hubClient, hubIter, pubpc,
                   pubTopic, pubIter, panic, nevents, registered, removed,
                   evicted, hubN, hubAttempts, hubOutcomes, mapRace, wmsg,
                   wire, deadline, nextPing, pinged, stopped, clientID,
                   wfailed, rlpc, rlIP, rlT, rlValid, rlLog, rlAdmitted,
                   rlCount>>

\* the same step of the clock, over the longer span of BeatSpec
Beat ==
    /\ Alive
    /\ now < MaxBeats * Quantum
    /\ ~Busy
    /\ \A c \in Clients : ~PingDue(c) /\ ~TimeoutDue(c)
    /\ now' = now + Quantum
    /\ UNCHANGED <<clients, send, closed, subscriptions, connClosed, hpc,
                   rpc, rmsg, wpc, hubpc, hubClient, hubIter, pubpc,
                   pubTopic, pubIter, panic, nevents, registered, removed,
                   evicted, hubN, hubAttempts, hubOutcomes, mapRace, wmsg,
                   wire, deadline, nextPing, pinged, stopped, clientID,
                   wfailed, rlpc, rlIP, rlT, rlValid, rlLog, rlAdmitted,
                   rlCount>>

\* ------------------------------------------------------------- RateLimit
\* the loop over requests: those with now.Sub(reqTime) < time.Minute
Fresh(requests, t) == SelectSeq(requests, LAMBDA r : t - r < Minute)

\* clientIP := c.ClientIP(); now := time.Now(); requests := clients[clientIP]
\* and the loop that builds validRequests
RateRead(h, ip) ==
    /\ Alive
    /\ rlpc[h] = "idle"
    /\ rlCount < MaxRequests
    /\ rlCount' = rlCount + 1
    /\ rlIP' = [rlIP EXCEPT ![h] = ip]
    /\ rlT' = [rlT EXCEPT ![h] = now]
    /\ rlValid' = [rlValid EXCEPT ![h] = Fresh(rlLog[ip], now)]
    /\ rlpc' = [rlpc EXCEPT ![h] = "write"]
    /\ UNCHANGED <<clients, send, closed, subscriptions, connClosed, hpc,
                   rpc, rmsg, wpc, hubpc, hubClient, hubIter, pubpc,
                   pubTopic, pubIter, panic, nevents, registered, removed,
                   evicted, hubN, hubAttempts, hubOutcomes, mapRace, wmsg,
                   wire, now, deadline, nextPing, pinged, stopped, clientID,
                   wfailed, rlLog, rlAdmitted>>

\* clients[clientIP] = validRequests
RateWrite(h) ==
    /\ Alive
    /\ rlpc[h] = "write"
    /\ rlLog' = [rlLog EXCEPT ![rlIP[h]] = rlValid[h]]
    /\ rlpc' = [rlpc EXCEPT ![h] = "check"]
    /\ UNCHANGED <<clients, send, closed, subscriptions, connClosed, hpc,
                   rpc, rmsg, wpc, hubpc, hubClient, hubIter, pubpc,
                   pubTopic, pubIter, panic, nevents, registered, removed,
                   evicted, hubN, hubAttempts, hubOutcomes, mapRace, wmsg,
                   wire, now, deadline, nextPing, pinged, stopped, clientID,
                   wfailed, rlIP, rlT, rlValid, rlAdmitted, rlCount>>

\* if len(clients[clientIP]) >= requestsPerMinute: 429, c.Abort(), return
RateCheck(h) ==
    /\ Alive
    /\ rlpc[h] = "check"
    /\ rlpc' = [rlpc EXCEPT ![h] =
           IF Len(rlLog[rlIP[h]]) >= Limit THEN "idle" ELSE "admit"]
    /\ UNCHANGED <<clients, send, closed, subscriptions, connClosed, hpc,
                   rpc, rmsg, wpc, hubpc, hubClient, hubIter, pubpc,
                   pubTopic, pubIter, panic, nevents, registered, removed,
                   evicted, hubN, hubAttempts, hubOutcomes, mapRace, wmsg,
                   wire, now, deadline, nextPing, pinged, stopped, clientID,
                   wfailed, rlIP, rlT, rlValid, rlLog, rlAdmitted, rlCount>>

\* clients[clientIP] = append(clients[clientIP], now); c.Next()
RateAdmit(h) ==
    /\ Alive
    /\ rlpc[h] = "admit"
    /\ rlLog' = [rlLog EXCEPT ![rlIP[h]] = Append(@, rlT[h])]
    /\ rlAdmitted' = Append(rlAdmitted, [ip |-> rlIP[h], t |-> rlT[h]])
    /\ rlpc' = [rlpc EXCEPT ![h] = "idle"]
    /\ UNCHANGED <<clients, send, closed, subscriptions, connClosed, hpc,
                   rpc, rmsg, wpc, hubpc, hubClient, hubIter, pubpc,
                   pubTopic, pubIter, panic, nevents, registered, removed,
                   evicted, hubN, hubAttempts, hubOutcomes, mapRace, wmsg,
                   wire, now, deadline, nextPing, pinged, stopped, clientID,
                   wfailed, rlIP, rlT, rlValid, rlCount>>

\* Two goroutines are inside the handler, which reads and writes the map
\* clients without a lock: the Go runtime may notice and throw.
RateFatal ==
    /\ Alive
    /\ \A h \in Handlers : rlpc[h] # "idle"
    /\ panic' = "concurrent map writes"
    /\ UNCHANGED <<clients, send, closed, subscriptions, connClosed, hpc,
                   rpc, rmsg, wpc, hubpc, hubClient, hubIter, pubpc,
                   pubTopic, pubIter, nevents, registered, removed, evicted,
                   hubN, hubAttempts, hubOutcomes, mapRace, wmsg, wire, now,
                   deadline, nextPing, pinged, stopped, clientID, wfailed,
                   rlpc, rlIP, rlT, rlValid, rlLog, rlAdmitted, rlCount>>

\* Time passes at the rate limiter, while no request is being handled (a
\* handler runs for microseconds).
RateTick ==
    /\ Alive
    /\ \A h \in Handlers : rlpc[h] = "idle"
    /\ now < MaxRateTicks * HalfMinute
    /\ now' = now + HalfMinute
    /\ UNCHANGED <<clients, send, closed, subscriptions, connClosed, hpc,
                   rpc, rmsg, wpc, hubpc, hubClient, hubIter, pubpc,
                   pubTopic, pubIter, panic, nevents, registered, removed,
                   evicted, hubN, hubAttempts, hubOutcomes, mapRace, wmsg,
                   wire, deadline, nextPing, pinged, stopped, clientID,
                   wfailed, rlpc, rlIP, rlT, rlValid, rlLog, rlAdmitted,
                   rlCount>>

\* gin runs each request's handler chain on its own goroutine
RateNext ==
    \/ \E h \in Handlers, ip \in IPs : RateRead(h, ip)
    \/ \E h \in Handlers : RateWrite(h)
    \/ \E h \in Handlers : RateCheck(h)
    \/ \E h \in Handlers : RateAdmit(h)
    \/ RateFatal
    \/ RateTick

RateSpec == Init /\ [][RateNext]_vars

\* a request is taken up only when no other is being handled
RateSeqNext ==
    \/ \E h \in Handlers, ip \in IPs :
          RateRead(h, ip) /\ \A g \in Handlers : rlpc[g] = "idle"
    \/ \E h \in Handlers : RateWrite(h)
    \/ \E h \in Handlers : RateCheck(h)
    \/ \E h \in Handlers : RateAdmit(h)
    \/ RateTick

\* The rate limiter with its requests handled one after the other.
RateSeqSpec == Init /\ [][RateSeqNext]_vars

\* ------------------------------------------------------------- shutdown
\* TradingServer.Stop is called: it cancels the server's context, shuts down
\* the bot manager, the HTTP server and the API client and waits for ts.wg.
\* The hub and the pumps take no context and are not in ts.wg: they run on
\* for as long as Stop takes (main returns after it).
Stop ==
    /\ Alive
    /\ ~stopped
    /\ stopped' = TRUE
    /\ UNCHANGED <<clients, send, closed, subscriptions, connClosed, hpc,
                   rpc, rmsg, wpc, hubpc, hubClient, hubIter, pubpc,
                   pubTopic, pubIter, panic, nevents, registered, removed,
                   evicted, hubN, hubAttempts, hubOutcomes, mapRace, wmsg,
                   wire, now, deadline, nextPing, pinged, clientID, wfailed,
                   rlpc, rlIP, rlT, rlValid, rlLog, rlAdmitted, rlCount>>

\* ------------------------------------------------------------- specification
HubStep ==
    \/ \E c \in Clients : HubRecvRegister(c)
    \/ HubRegister
    \/ HubWelcome
    \/ \E c \in Clients : HubRecvUnregister(c)
    \/ HubUnregister
    \/ \E p \in Publishers : HubRecvBroadcast(p)
    \/ \E c \in Clients : HubBroadcastNext(c)
    \/ HubBroadcastDone

PublisherStep ==
    \/ \E p \in Publishers : Broadcast(p)
    \/ \E p \in Publishers, t \in Topics : BroadcastToSubscribers(p, t)
    \/ \E p \in Publishers, c \in Clients : SubscribersNext(p, c)
    \/ \E p \in Publishers : SubscribersDone(p)

SessionStep ==
    \/ \E c \in Clients : Spawn(c)
    \/ \E c \in Clients, f \in Frames : ReadFrame(c, f)
    \/ \E c \in Clients : ReadReply(c)
    \/ \E c \in Clients : ReadError(c)
    \/ \E c \in Clients : WriteRecv(c)
    \/ \E c \in Clients : WriteClosed(c)
    \/ \E c \in Clients, ok \in BOOLEAN : WriteFlush(c, ok)
    \/ \E c \in Clients : WritePingError(c)

Next == HubStep \/ PublisherStep \/ SessionStep \/ FatalMapRace

Spec == Init /\ [][Next]_vars

\* a BroadcastToSubscribers call that holds the read lock goes on with its
\* loop and returns
SubscribersProgress ==
    \/ \E p \in Publishers, c \in Clients : SubscribersNext(p, c)
    \/ \E p \in Publishers : SubscribersDone(p)

\* the frames of sessions that subscribe
LockFrames == [kind : {"subscribe"}, topic : Topics]

\* The tasks that meet at the hub's lock, the subscription locks, the three
\* channels and the queues: the hub loop, the publishers, and sessions that
\* subscribe and go away, over connections whose writes succeed.
LockNext ==
    \/ HubStep
    \/ PublisherStep
    \/ FatalMapRace
    \/ \E c \in Clients : Spawn(c)
    \/ \E c \in Clients, f \in LockFrames : ReadFrame(c, f)
    \/ \E c \in Clients : ReadReply(c)
    \/ \E c \in Clients : ReadError(c)
    \/ \E c \in Clients : WriteRecv(c)
    \/ \E c \in Clients : WriteFlush(c, TRUE)
    \/ \E c \in Clients : WriteClosed(c)

\* The same with goroutines that are scheduled: the hub loop takes a step it
\* can take, and so does a publisher inside BroadcastToSubscribers.
FairSpec ==
    /\ Init /\ [][LockNext]_vars
    /\ WF_vars(HubStep)
    /\ WF_vars(SubscribersProgress)

\* The sessions, the hub loop and global publishes, with what the peer of c1
\* receives recorded.
WireInit == InitWith({"c1"}, Apart)

WireNext ==
    \/ HubStep
    \/ \E p \in Publishers : Broadcast(p)
    \/ SessionStep

WireSpec == WireInit /\ [][WireNext]_vars

\* Sessions over time, without publishers: the pumps with their deadlines and
\* tickers, and the hub's register and unregister cases.
KeepaliveStep ==
    \/ \E c \in Clients : ReadPong(c)
    \/ \E c \in Clients : ReadExpired(c)
    \/ \E c \in Clients : WritePing(c)
    \/ Tick

LifeNext ==
    \/ \E c \in Clients : HubRecvRegister(c)
    \/ HubRegister
    \/ HubWelcome
    \/ \E c \in Clients : HubRecvUnregister(c)
    \/ HubUnregister
    \/ SessionStep
    \/ KeepaliveStep

LifeSpec == Init /\ [][LifeNext]_vars

\* Sessions whose peers send no frames, over a span of several deadline
\* windows: the hub's register and unregister cases, the write pump delivering
\* the welcome and pinging, the read pump answering pongs or timing out.
BeatNext ==
    \/ \E c \in Clients : HubRecvRegister(c)
    \/ HubRegister
    \/ HubWelcome
    \/ \E c \in Clients : HubRecvUnregister(c)
    \/ HubUnregister
    \/ \E c \in Clients : Spawn(c)
    \/ \E c \in Clients : WriteRecv(c)
    \/ \E c \in Clients : WriteFlush(c, TRUE)
    \/ \E c \in Clients : WriteClosed(c)
    \/ \E c \in Clients : ReadPong(c)
    \/ \E c \in Clients : ReadExpired(c)
    \/ \E c \in Clients : WritePing(c)
    \/ Beat

BeatSpec == Init /\ [][BeatNext]_vars

\* The hub's register and unregister cases and the pumps, without publishers
\* and without the clock.
HubSessionStep ==
    \/ \E c \in Clients : HubRecvRegister(c)
    \/ HubRegister
    \/ HubWelcome
    \/ \E c \in Clients : HubRecvUnregister(c)
    \/ HubUnregister
    \/ \E c \in Clients : Spawn(c)
    \/ \E c \in Clients : ReadReply(c)
    \/ \E c \in Clients : ReadError(c)
    \/ \E c \in Clients : WriteRecv(c)
    \/ \E c \in Clients : WriteClosed(c)
    \/ \E c \in Clients, ok \in BOOLEAN : WriteFlush(c, ok)
    \/ \E c \in Clients : WritePingError(c)

\* Subscription type of a frame that carries no data, or data without a
\* "type": the zero value of Subscription.Type
NoTopic == ""
\* subscribe and unsubscribe frames that decode, over several subscription
\* types
SubTopics == Topics \cup {"Y", NoTopic}
SubFrames == [kind : {"subscribe", "unsubscribe"}, topic : SubTopics]

\* Sessions that register and send subscribe and unsubscribe frames over
\* connections that do not fail.
SubNext ==
    \/ \E c \in Clients : HubRecvRegister(c)
    \/ HubRegister
    \/ HubWelcome
    \/ \E c \in Clients : Spawn(c)
    \/ \E c \in Clients, f \in SubFrames : ReadFrame(c, f)
    \/ \E c \in Clients : ReadReply(c)
    \/ \E c \in Clients : WriteRecv(c)
    \/ \E c \in Clients : WriteFlush(c, TRUE)
    \/ \E c \in Clients : WriteClosed(c)

SubSpec == Init /\ [][SubNext]_vars

\* clock readings the handlers' calls of generateClientID may get
Readings == {1, 2}

\* Sessions whose handlers read the clock at any instants, the same one
\* included.
IdInit == \E reading \in [Clients -> Readings] : InitWith({}, reading)

IdNext ==
    \/ HubSessionStep
    \/ \E c \in Clients, f \in Frames : ReadFrame(c, f)

IdSpec == IdInit /\ [][IdNext]_vars

\* The program with a shutdown request arriving at any moment.
StopNext == Next \/ Stop

StopSpec == Init /\ [][StopNext]_vars

\* ------------------------------------------------------------- properties
InQueue(c, m) == \E i \in 1..Len(send[c]) : send[c][i] = m

\* the hub loop's broadcast case visits c in this step
HubVisits(c) ==
    /\ hubpc = "broadcast"
    /\ c \in hubIter
    /\ c \notin hubIter'

\* BroadcastToSubscribers, called by p, reaches its select for c in this step
PubVisits(p, c) ==
    /\ pubpc[p] = "iter"
    /\ c \in pubIter[p]
    /\ c \notin pubIter'[p]
    /\ IsSubscribed(c, pubTopic[p])

\* C1: the registry is exactly the set of sessions whose register event was
\* processed minus those whose unregister event was processed or that were
\* evicted for a full queue, whatever publishes ran in between.
RegistryIsRegisteredMinusRemoved == clients = registered \ removed

\* C1 witness: both sessions were registered, publishes evicted one of them
\* and the other is still a member.
RegistryAfterEviction ==
    /\ registered = Clients
    /\ evicted # {}
    /\ clients # {}
    /\ Alive

\* C2: when the hub loop's dispatch of one global publish is over (the range
\* loop is exhausted, or the process died in it), it has made one enqueue
\* attempt per session registered when it began, and every attempt either
\* enqueued the envelope or evicted the session.
PublishAttemptsEverySession ==
    (hubpc = "broadcast" /\ (hubIter = {} \/ ~Alive))
        => (hubAttempts = hubN /\ hubOutcomes = hubN)

SlowSessionNeverStopsDispatch ==
    \A d \in Clients :
        (/\ hubpc = "broadcast"
         /\ d \in hubIter
         /\ d \in clients
         /\ ~closed[d]
         /\ Len(send[d]) < SendCap)
            => Alive

\* C6: processing an unregister event for a session that is no longer in the
\* registry (unregistered before, or evicted) changes neither the registry
\* nor any queue, and does not fail.
UnregisterIdempotent ==
    [][(hubpc = "unregister" /\ hubpc' = "select" /\ hubClient \notin clients)
          => (/\ clients' = clients
              /\ send' = send
              /\ closed' = closed
              /\ panic' = panic)]_vars

\* C6 witness: the unregister event of an evicted session has been processed.
UnregisterAfterEviction ==
    \E c \in evicted :
        /\ rpc[c] = "done"
        /\ hubClient # c
        /\ Alive

\* C7: no queue is closed twice and nothing is sent on a closed queue (in Go
\* either attempt is a panic).
NoUseAfterClose ==
    panic \notin {"send on closed channel", "close of closed channel"}

\* C8: no publisher task ranges over, or deletes from, the membership set.
OnlyHubLoopTouchesRegistry ==
    \A p \in Publishers : ~PubReading(p)

\* C9: no delete from the membership set runs while another task holds the
\* read lock for its own range loop or delete.
NoConcurrentRegistryMutation == ~mapRace

RegisterEnqueuesWelcome ==
    [][(hubpc = "welcome" /\ hubpc' = "select")
          => (/\ hubClient \in clients'
              /\ send' = [send EXCEPT ![hubClient] =
                               Append(@, Stamp(hubClient, Welcome))]
              /\ closed' = closed
              /\ panic' = panic)]_vars

\* C12: no envelope of publishToTopic(t, .) is appended to a session's queue
\* while the session has recorded a subscribe for t and the
\* subscription/subscribed acknowledgment of that subscribe is still to be
\* enqueued: the acknowledgment comes first in the queue.
PublishAfterAck ==
    [][\A c \in Clients, t \in Topics :
          send'[c] = Append(send[c], Published(t))
              => ~(rpc[c] = "reply" /\ rmsg[c] = Subscribed(t))]_vars

\* s is an initial segment of t
IsPrefix(s, t) ==
    /\ Len(s) <= Len(t)
    /\ \A i \in 1..Len(s) : s[i] = t[i]

\* the envelopes of c1 that are past the queue's tail: those the peer has
\* received, the one writePump holds, and those still queued, in that order
Pipeline ==
    wire["c1"] \o (IF wpc["c1"] = "flush" THEN <<wmsg["c1"]>> ELSE <<>>)
               \o send["c1"]

\* C13: per-session delivery is FIFO and exactly-once.  What the peer has
\* received only grows at its end, and as long as writePump has not failed,
\* every step leaves the sequence "received, then in writePump's hand, then
\* queued" unchanged or extended at its end: an envelope reaches the peer
\* once, after all envelopes enqueued before it and before all enqueued
\* after it, also when one flush carries several envelopes.
DeliveryIsFifoExactlyOnce ==
    [][/\ IsPrefix(wire["c1"], wire'["c1"])
       /\ (wpc'["c1"] \in {"select", "flush"} /\ ~connClosed'["c1"])
              => IsPrefix(Pipeline, Pipeline')]_vars

\* C13 witness: after an earlier flush has reached the peer, writePump holds
\* an envelope with more queued behind it: the next flush coalesces.
CoalescingAfterDelivery ==
    /\ wire["c1"] \notin {NoTap, <<>>}
    /\ wpc["c1"] = "flush"
    /\ send["c1"] # <<>>
    /\ Alive

\* a frame that does not decode, or whose kind handleMessage does not know
BadFrames == {f \in Frames : f.kind \in {"malformed", "unknown"}}

\* C14: a step in which readPump handles a malformed frame or a frame of
\* unknown kind appends an error envelope to the session's queue and leaves
\* the session reading, in the registry if it was there, with its queue open,
\* in a running process.
BadFrameKeepsSession ==
    [][\A c \in Clients, f \in BadFrames :
          (ReadFrame(c, f) /\ c \in clients /\ ~closed[c])
              => (/\ send'[c] = Append(send[c], Stamp(c, ErrorMsg))
                  /\ rpc'[c] = "read"
                  /\ c \in clients'
                  /\ ~closed'[c]
                  /\ panic' = "none")]_vars

\* C15: a session whose read pump has left its loop and submitted its
\* unregister, and which is still in the registry, is served by a running
\* hub loop: the process is alive, so that under fair scheduling the
\* unregister is taken and the session removed with its queue closed.
SubmittedUnregisterIsServed ==
    \A c \in Clients : (rpc[c] = "unregister" /\ c \in clients) => Alive

\* C16: a registered session whose read deadline has passed is on its way
\* out in a running process (its read pump returns the timeout, the hub
\* takes the unregister), so that it is eventually evicted.
SilentSessionIsEvicted ==
    \A c \in Clients :
        (Expired(c) /\ rpc[c] \in {"read", "unregister"} /\ c \in clients)
            => Alive

\* C16, second half: a session that has no ping unanswered, its connection
\* open and its pumps running, has not reached its read deadline.
AnsweringSessionNotExpired ==
    \A c \in Clients :
        (rpc[c] = "read" /\ wpc[c] = "select" /\ ~connClosed[c] /\ ~pinged[c])
            => ~Expired(c)

\* C17: every frame readPump receives renews the read deadline to
\* now + pongWait.
EveryFrameRenewsDeadline ==
    [][\A c \in Clients, f \in Frames :
          ReadFrame(c, f) => deadline'[c] = now + PongWait]_vars

\* a step of one of session a's pumps
PumpStep(a) ==
    \/ \E f \in Frames : ReadFrame(a, f)
    \/ ReadReply(a)
    \/ ReadError(a)
    \/ WriteRecv(a)
    \/ WriteClosed(a)
    \/ \E ok \in BOOLEAN : WriteFlush(a, ok)
    \/ WritePingError(a)

\* C18: whatever a step of session a's pumps runs into (a bad frame, a
\* transport error, a full queue), it leaves every other session's
\* membership, queue and subscription set as they were, and the process
\* running.
ErrorsConfinedToSession ==
    [][\A a \in Clients :
          PumpStep(a)
              => (/\ panic' = panic
                  /\ \A b \in Clients \ {a} :
                        /\ (b \in clients') = (b \in clients)
                        /\ send'[b] = send[b]
                        /\ closed'[b] = closed[b]
                        /\ subscriptions'[b] = subscriptions[b])]_vars

\* C19: the hub takes events in the order they were submitted.  Every
\* handler is blocked in hub.register <- client from the start, so each
\* publish is submitted after every register: when the hub takes a publish,
\* the sessions whose register is still waiting are among its targets.
PublishTargetsSubmittedRegisters ==
    [][\A p \in Publishers, c \in Clients :
          (HubRecvBroadcast(p) /\ hpc[c] = "register") => c \in hubIter']_vars

\* C20: shutdown cancels the hub loop and the pumps, and the envelopes still
\* in outbound queues are discarded: once Stop has been called, no envelope
\* that was waiting in a queue is written to a transport.
NothingWrittenAfterShutdown ==
    [][stopped => \A c \in Clients : ~WriteFlush(c, TRUE)]_vars

\* ------------------------------------------------------------------ C21
\* the envelopes Broadcast and BroadcastToSubscribers publish
PublishedEnvelopes == {Published(t) : t \in Topics \cup {Global}}
\* the session was entered in the registry and is no longer in it
HasLeft(c) == c \in registered /\ c \notin clients

RepliesTo(c) ==
    \/ ReadReply(c)
    \/ \E f \in Frames : ReadFrame(c, f) /\ ~(f.kind \in {"subscribe", "unsubscribe"} /\ Decodes(f))
    \/ HubWelcome /\ hubClient = c

\* C22: every writer to a session's outbound queue is drop-on-full.  When the
\* session's own reply path (welcome, acknowledgment, pong, error) finds the
\* open queue at capacity, the envelope is dropped: the queue stays open and
\* its contents are unchanged.
ReplyOnFullQueueDrops ==
    [][\A c \in Clients :
          (RepliesTo(c) /\ ~closed[c] /\ Len(send[c]) = SendCap) =>
              (~closed'[c] /\ send'[c] = send[c])]_vars

\* ------------------------------------------------------------------ C23
\* C23: a write failure ends the write pump and closes the transport, the
\* read pump then fails, and the session is unregistered with its outbound
\* queue closed exactly once: when the hub serves the unregister of a session
\* whose write failed, the session leaves the registry, its queue is closed,
\* and nothing was closed twice.
WriteFailureEndsInOneClose ==
    [][\A c \in Clients :
          (wfailed[c] /\ HubUnregister /\ hubClient = c) =>
              /\ c \notin clients'
              /\ closed'[c]
              /\ panic' = "none"]_vars

\* C23, first half (holds): after a write failure the write pump has ended
\* and the transport is closed, so the read pump reads no further frame.
WriteFailureClosesTransport ==
    \A c \in Clients :
        wfailed[c] => (wpc[c] = "done" /\ connClosed[c]
                       /\ \A f \in Frames : ~ENABLED ReadFrame(c, f))

\* ------------------------------------------------------------------ C24
\* C24: a session's subscription set is changed only by that session's own
\* read pump handling a subscribe or unsubscribe frame.  Every other step
\* (register, unregister, publish, publish to a topic, eviction, another
\* session's frames) leaves the set as it was.
OnlyOwnFramesChangeSubscriptions ==
    [][\A c \in Clients :
          subscriptions'[c] # subscriptions[c] =>
              \E f \in Frames :
                  /\ f.kind \in {"subscribe", "unsubscribe"}
                  /\ ReadFrame(c, f)]_vars

\* C24 witness: a publish is being dispatched while one member has subscribed
\* and the other member's set is still empty.
SubscribedBesideUnsubscribed ==
    /\ hubpc = "broadcast"
    /\ \E c, d \in clients :
          subscriptions[c] # {} /\ subscriptions[d] = {}

\* ------------------------------------------------------------------ C25
\* the frame of kind k for subscription type t
SubFrame(k, t) == [kind |-> k, topic |-> t]

\* C25: handling a subscribe frame for T leaves T in the session's set and
\* the membership of every other topic as it was; when T was already in the
\* set, the set is unchanged (subscribing again is idempotent).
SubscribeAddsOnlyItsTopic ==
    [][\A c \in Clients, t \in SubTopics :
          ReadFrame(c, SubFrame("subscribe", t)) =>
              /\ t \in subscriptions'[c]
              /\ \A u \in SubTopics \ {t} :
                    (u \in subscriptions'[c]) <=> (u \in subscriptions[c])
              /\ t \in subscriptions[c] => subscriptions'[c] = subscriptions[c]]_vars

\* C25 witness: a session subscribed to X and to Y, its first subscribe for X
\* is acknowledged and queued, and it is handling a second subscribe for X.
SubscribedTwice ==
    \E c \in Clients :
        /\ nevents = 3
        /\ subscriptions[c] = {"X", "Y"}
        /\ rpc[c] = "reply"
        /\ rmsg[c] = Subscribed("X")
        /\ \E i \in 1..Len(send[c]) : send[c][i] = Stamp(c, Subscribed("X"))
        /\ \E i \in 1..Len(send[c]) : send[c][i] = Stamp(c, Subscribed("Y"))

\* ------------------------------------------------------------------ C26
\* C26: handling an unsubscribe frame for T leaves T absent from the session's
\* set and the membership of every other topic as it was, whether or not T was
\* in the set; so the unsubscribe that follows a subscribe for T restores the
\* set the session had before, if T was not in it.
UnsubscribeRemovesOnlyItsTopic ==
    [][\A c \in Clients, t \in SubTopics :
          /\ ReadFrame(c, SubFrame("unsubscribe", t)) =>
                /\ t \notin subscriptions'[c]
                /\ \A u \in SubTopics \ {t} :
                      (u \in subscriptions'[c]) <=> (u \in subscriptions[c])
                /\ t \notin subscriptions[c] =>
                      subscriptions'[c] = subscriptions[c]
          \* the set an unsubscribe for T gives after this subscribe for T
          /\ (ReadFrame(c, SubFrame("subscribe", t)) /\ t \notin subscriptions[c]) =>
                handleUnsubscription(c, t)' = subscriptions[c]]_vars

\* C26 witness: a session that had subscribed to Y subscribed to X and is
\* handling the unsubscribe for X, which has restored its set.
SubscribeThenUnsubscribe ==
    \E c \in Clients :
        /\ nevents = 3
        /\ subscriptions[c] = {"Y"}
        /\ rpc[c] = "reply"
        /\ rmsg[c] = Unsubscribed("X")
        /\ \E i \in 1..Len(send[c]) : send[c][i] = Stamp(c, Subscribed("X"))
        /\ \E i \in 1..Len(send[c]) : send[c][i] = Stamp(c, Subscribed("Y"))

\* ------------------------------------------------------------------ C27
\* C27: for every inbound frame read while the session's queue has free
\* capacity, the read pump enqueues exactly one reply, determined by the
\* frame's kind, onto that session's own queue, and nothing onto any other
\* session's queue.  (The acknowledgment of a subscribe or unsubscribe frame
\* is enqueued by the step that follows the change of the set.)
FrameGetsOneReply ==
    [][\A c \in Clients :
          /\ \A f \in Frames :
                (ReadFrame(c, f) /\ Len(send[c]) < SendCap) =>
                    /\ \A d \in Clients \ {c} : send'[d] = send[d]
                    /\ IF f.kind \in {"subscribe", "unsubscribe"} /\ Decodes(f)
                       THEN rmsg'[c] = Reply(f) /\ send'[c] = send[c]
                       ELSE send'[c] = Append(send[c], Stamp(c, Reply(f)))
          /\ (ReadReply(c) /\ Len(send[c]) < SendCap) =>
                /\ \A d \in Clients \ {c} : send'[d] = send[d]
                /\ send'[c] = Append(send[c], Stamp(c, rmsg[c]))]_vars

\* C27, restricted (holds): the same, for frames read and acknowledgments
\* sent while the queue is open.
OpenQueueFrameGetsOneReply ==
    [][\A c \in Clients :
          /\ \A f \in Frames :
                (ReadFrame(c, f) /\ ~closed[c] /\ Len(send[c]) < SendCap) =>
                    /\ \A d \in Clients \ {c} : send'[d] = send[d]
                    /\ IF f.kind \in {"subscribe", "unsubscribe"} /\ Decodes(f)
                       THEN rmsg'[c] = Reply(f) /\ send'[c] = send[c]
                       ELSE send'[c] = Append(send[c], Stamp(c, Reply(f)))
          /\ (ReadReply(c) /\ ~closed[c] /\ Len(send[c]) < SendCap) =>
                /\ \A d \in Clients \ {c} : send'[d] = send[d]
                /\ send'[c] = Append(send[c], Stamp(c, rmsg[c]))]_vars

\* ------------------------------------------------------------------ C28
\* C28: a subscribe or unsubscribe frame with no payload, or with a payload
\* that has no topic, is rejected: the session's set is unchanged, the empty
\* topic is not in it, and the reply enqueued on an open queue with free
\* capacity is an error envelope.
EmptyTopicIsRejected ==
    [][\A c \in Clients, k \in {"subscribe", "unsubscribe"} :
          ReadFrame(c, SubFrame(k, NoTopic)) =>
              /\ subscriptions'[c] = subscriptions[c]
              /\ NoTopic \notin subscriptions'[c]
              /\ (~closed[c] /\ Len(send[c]) < SendCap) =>
                    send'[c] = Append(send[c], Stamp(c, ErrorMsg))]_vars

\* ------------------------------------------------------------------ C29
\* the envelopes in c's queue that came through c.SendMessage: all but the
\* published ones, which the publish loops enqueue themselves
OwnEnvelopes(c) ==
    {send[c][i] : i \in 1..Len(send[c])} \ PublishedEnvelopes

\* C29: every envelope a session enqueues through its own send operation
\* carries that session's identifier, whatever the caller had put in the
\* field, and no step changes a session's identifier.
EnvelopesCarryOwnId ==
    /\ [](\A c \in Clients : \A m \in OwnEnvelopes(c) :
              m.client_id = clientID[c] /\ m.client_id # NoId)
    /\ [][clientID' = clientID]_vars

\* C29 witness: the welcome, built by the hub without an identifier, and a
\* pong are queued for a session, both with the session's identifier.
StampedEnvelopesQueued ==
    \E c \in Clients :
        /\ Welcome.client_id = NoId
        /\ send[c] = <<[Welcome EXCEPT !.client_id = clientID[c]],
                       [Pong EXCEPT !.client_id = clientID[c]]>>

\* ------------------------------------------------------------------ C30
\* C30: session identifiers are unique: no two sessions in the registry,
\* two connections accepted at the same clock reading included, have the same
\* identifier.
SessionIdsAreUnique ==
    \A c, d \in clients : c # d => clientID[c] # clientID[d]

WelcomeDone(c) == c \in registered /\ ~(hubpc = "welcome" /\ hubClient = c)

\* C32: the welcome is the first envelope in a session's outbound queue: as
\* long as the hub's register case has not sent the session's welcome, the
\* only envelope a step enqueues for the session is that welcome.
WelcomeIsFirst ==
    [][\A c \in Clients :
          (~WelcomeDone(c) /\ Len(send'[c]) > Len(send[c])) =>
              send'[c] = <<Stamp(c, Welcome)>>]_vars

\* ------------------------------------------------------------------ C33
\* a handler is blocked in its register submission, a read pump in its
\* unregister submission, or a publisher in its publish submission
Pending ==
    \/ \E c \in Clients : hpc[c] = "register" \/ rpc[c] = "unregister"
    \/ \E p \in Publishers : pubpc[p] = "bcast"

\* C33: the hub is deadlock-free while its loop runs.  With the hub loop and
\* the publishers scheduled, whenever a register, unregister or publish
\* submission is blocked, a moment follows at which none is (a submission
\* stops being blocked only by being accepted), unless the process has ended.
SubmissionsAreAccepted == Pending ~> (~Pending \/ ~Alive)

\* C33 witness: the hub loop waits for the write lock that a publisher's
\* BroadcastToSubscribers holds for reading, while a handler, a read pump and
\* nobody else can be served before the loop returns to its select.
HubWaitsBehindReader ==
    /\ hubpc \in {"register", "unregister"}
    /\ ~CanLock
    /\ \E c \in Clients : hpc[c] = "register" \/ rpc[c] = "unregister"

\* ------------------------------------------------------------------ C34
\* C34: after the hub evicts a session for a full queue the session winds
\* down: the write pump sees the closed queue and closes the transport, the
\* read pump then exits, and its late unregister changes nothing.  So no step
\* of an evicted session's read pump ends the process, and the unregister of
\* an evicted session leaves the registry and the queues as they are.
EvictedSessionWindsDown ==
    [][\A c \in evicted :
          /\ (ReadReply(c) \/ \E f \in Frames : ReadFrame(c, f)) =>
                panic' = "none"
          /\ (HubUnregister /\ hubClient = c) =>
                /\ panic' = "none"
                /\ clients' = clients
                /\ closed' = closed /\ send' = send]_vars

\* C34, last part (holds): the unregister of an evicted session changes
\* nothing in the registry or the queues.
LateUnregisterIsNoOp ==
    [][\A c \in evicted :
          (HubUnregister /\ hubClient = c) =>
              /\ panic' = panic
              /\ clients' = clients
              /\ closed' = closed /\ send' = send]_vars

\* ------------------------------------------------------------------ C35
\* number of requests from address ip passed on with a time in [t, t + Minute)
AdmittedIn(ip, t) ==
    Cardinality({i \in 1..Len(rlAdmitted) :
                    /\ rlAdmitted[i].ip = ip
                    /\ rlAdmitted[i].t >= t
                    /\ rlAdmitted[i].t < t + Minute})

\* C35: RateLimit(n) passes, for each client IP, at most n requests to the
\* downstream handler within any one-minute window, also when requests from
\* the same IP are handled concurrently.
AtMostLimitPerMinute ==
    \A i \in 1..Len(rlAdmitted) :
        AdmittedIn(rlAdmitted[i].ip, rlAdmitted[i].t) <= Limit
====
